---- MODULE Spec2Model ----
(***************************************************************************)
(* Device lifecycle of the iPod dock: the hotplug monitor                  *)
(* (ipod_sync/udev_listener.py), the queue sync (sync_from_queue.py), the  *)
(* mount helpers (utils.py), the queue watcher (watcher.py) and the API    *)
(* helpers that bracket their work with mount_ipod ... eject_ipod          *)
(* (api_helpers.py).  Each caller is a process with a program position;    *)
(* the mount point, the connection marker and the sync queue are shared.   *)
(***************************************************************************)
EXTENDS Integers, Sequences, FiniteSets, TLC

\* ------------------------------------------------------------------ bounds

\* Number of distinct files that can sit in the sync queue.
MaxFiles == 2

\* Number of child partitions a device reports.
MaxParts == 3

\* Number of payload bytes handed to AAPController._send.
MaxPayload == 3

\* Number of serial.Serial objects constructed in one run.
MaxOpens == 2

\* Number of frames written to the serial link in one run.
MaxFrames == 2

\* Number of bytes in a response line, the line end not counted.
MaxLine == 5

\* --------------------------------------------------------------- constants

Procs == {"listen", "watch", "api"}
None == "None"

\* listen(vendor="05ac", product="1209")
vendor == "05ac"
product == "1209"
VendorIds == {"05ac", "abcd"}
ProductIds == {"1209", "1261"}
Actions == {"add", "remove"}
DeviceTypes == {"usb_device", "partition", "disk"}

\* ID_FS_TYPE of the event's device.
EventFsTypes == {"vfat", "hfsplus"}

HotplugEvent == [action : Actions, vendor_id : VendorIds, model_id : ProductIds,
                 device_type : DeviceTypes, fs_type : EventFsTypes]
NoEvent == [action |-> "none", vendor_id |-> "none", model_id |-> "none",
            device_type |-> "none", fs_type |-> "none"]

\* Directory layouts a mounted partition can have (iTunes and Music live
\* beneath iPod_Control).  The unmounted mount point is an empty directory.
Layouts == { {}, {"iPod_Control"}, {"iPod_Control", "iTunes"},
             {"iPod_Control", "Music"}, {"iPod_Control", "iTunes", "Music"} }

\* Outcomes of subprocess.run(cmd, timeout=...) and of utils._run(cmd).
RunOutcomes == {"ok", "fail", "timeout", "oserror"}
UtilRunOutcomes == {"ok", "fail", "oserror"}

\* Children of the attached device as udev reports them.
PartTables ==
  { << >>,
    << [node |-> "/dev/sda1", fstype |-> "hfs", size |-> 100] >>,
    << [node |-> "/dev/sda1", fstype |-> "hfs", size |-> 100],
       [node |-> "/dev/sda2", fstype |-> "vfat", size |-> 200] >>,
    << [node |-> "/dev/sda1", fstype |-> "vfat", size |-> 100],
       [node |-> "/dev/sda2", fstype |-> "fat32", size |-> 500],
       [node |-> "/dev/sda3", fstype |-> "vfat", size |-> 200] >> }

Files == 1..MaxFiles

VARIABLES
  pc,         \* program position of each caller
  ev,         \* (action, dev) of the event listen is handling / handled last
  partition,  \* listen's local `partition`
  mounted,    \* the mount point is a mounted filesystem
  layout,     \* directories present under the mount point
  marker,     \* the connection marker file exists
  queue,      \* files waiting in the sync queue
  err,        \* the command whose exception is propagating in listen
  log,        \* the exception logged at udev_listener.py:217 for this event
  verified,   \* history: _verify_mount returned True for the current mount
  synced,     \* history: listen called sync_queue since the last detach
  arg,        \* the arguments of a function called on its own
  ret,        \* what that function returned
  sq,         \* the locals of a sync_queue run followed file by file
  kind,       \* class of the playback controller object
  _serial,    \* the controller's self._serial
  is_open,    \* the serial handles that are open
  opens,      \* number of serial.Serial(...) constructions so far
  tpc,        \* program position of each thread using the controller
  call,       \* the controller call each thread is in
  ser,        \* each thread's local `ser`
  wire,       \* the frames written to the link, oldest first
  rx,         \* response lines waiting in the port's input buffer
  result,     \* what the call each thread is in returns or raises
  response    \* how each thread's last call ended for its caller

lifecycleVars == << pc, ev, partition, mounted, layout, marker, queue, err,
                    log, verified, synced >>
pureVars == << arg, ret, sq >>
serialVars == << kind, _serial, is_open, opens, tpc, call, ser, wire, rx,
                 result, response >>

vars == << pc, ev, partition, mounted, layout, marker, queue, err, log,
           verified, synced, arg, ret, sq, kind, _serial, is_open, opens, tpc,
           call, ser, wire, rx, result, response >>

\* ------------------------------------------------------------ pure helpers

\* Faulty variant of Matches: the product id is not compared.
Matches_VendorOnly(e) == e.vendor_id = vendor

\* udev_listener.py:192
Matches(e) == e.vendor_id = vendor /\ e.model_id = product

\* udev_listener.py:43-45
IsVfat(p) == p.fstype \in {"vfat", "fat32"}

RECURSIVE max_by_size_KeepsLast(_, _)
\* Faulty variant of max_by_size: an item of equal size replaces the best.
max_by_size_KeepsLast(best, rest) ==
  IF rest = << >> THEN best
  ELSE max_by_size_KeepsLast(IF Head(rest).size >= best.size
                             THEN Head(rest) ELSE best, Tail(rest))

RECURSIVE max_by_size(_, _)
\* max(items, key=size) of Python (udev_listener.py:52, utils.py:115): the
\* items are scanned in order and only a strictly larger one replaces the
\* best so far.
max_by_size(best, rest) ==
  IF rest = << >> THEN best
  ELSE max_by_size(IF Head(rest).size > best.size THEN Head(rest) ELSE best,
                   Tail(rest))

\* udev_listener.py:37-57: None when no VFAT child exists, else the node of
\* the largest one.
find_ipod_partition(parts) ==
  LET vfat == SelectSeq(parts, IsVfat)
  IN IF vfat = << >> THEN None
     ELSE max_by_size(Head(vfat), Tail(vfat)).node

\* config.py:19
IPOD_DEVICE == "/dev/disk/by-label/IPOD"

\* str.lower() on the filesystem types that occur.
lower(x) == IF x = "VFAT" THEN "vfat" ELSE x

\* utils.py:110-111
IsFat(p) == lower(p.fstype) \in {"vfat", "fat"}

\* utils.py:90-120: the children lsblk lists, in its order; any failure of
\* lsblk or of the parsing is caught and gives the configured device.
detect_ipod_device(parts, lsblk_fails) ==
  LET candidates == SelectSeq(parts, IsFat)
  IN IF lsblk_fails \/ candidates = << >> THEN IPOD_DEVICE
     ELSE max_by_size(Head(candidates), Tail(candidates)).node

\* udev_listener.py:60-89
_verify_mount(l) ==
  IF ~("iPod_Control" \in l) THEN FALSE
  ELSE IF ~("iTunes" \in l) THEN FALSE
  ELSE IF ~("Music" \in l) THEN FALSE
  ELSE TRUE

\* --------------------------------------------------------------- the state

\* The lifecycle callers before the first event.
InitLifecycle ==
  /\ pc = [p \in Procs |-> IF p = "listen" THEN "loop" ELSE "idle"]
  /\ ev = NoEvent
  /\ partition = None
  /\ mounted = FALSE
  /\ layout = {}
  /\ marker = FALSE
  /\ queue = {}
  /\ err = "none"
  /\ log = "none"
  /\ verified = FALSE
  /\ synced = FALSE

\* No function has been called on its own.
NoArg == [fn |-> "none"]
NoRet == [done |-> FALSE, value |-> None]

\* sync_queue has not been called.
NoSync ==
  [at |-> "none", i |-> 0, present |-> {}, added |-> {}, failed |-> {},
   success_count |-> 0, error_count |-> 0, saved |-> "none"]

InitPure == arg = NoArg /\ ret = NoRet /\ sq = NoSync

Goto(p, l) == pc' = [pc EXCEPT ![p] = l]

\* An exception from command `cmd` starts propagating in caller p.
Raise(p, cmd) == /\ Goto(p, "exc")
                 /\ err' = IF p = "listen" THEN cmd ELSE err

\* A successful mount command: the filesystem appears with some layout and
\* has not been verified yet.
DoMount == /\ mounted' = TRUE
           /\ \E l \in Layouts : layout' = l
           /\ verified' = FALSE

\* A successful umount command.
DoUnmount == /\ mounted' = FALSE
             /\ layout' = {}
             /\ verified' = FALSE


\* ----------------------------------------------- listen (udev_listener.py)

\* udev_listener.py:162-171
_set_connected(connected) == marker' = connected

\* udev_listener.py:210-212: mount_partition returned True, listen calls
\* sync_queue(MOUNT_POINT).
ListenCallsSync == /\ Goto("listen", "sq_list")
                   /\ synced' = TRUE

\* udev_listener.py:213-214: mount_partition returned False.
ListenMountFailed == Goto("listen", "loop")

\* udev_listener.py:191-198 and 219-220: the next (action, dev) of the monitor.
Listen_Event(events) ==
  /\ pc["listen"] = "loop"
  /\ log' = "none"
  /\ \E e \in events :
       /\ ev' = e
       /\ IF Matches(e) /\ e.action = "add"
             /\ e.device_type \in {"usb_device", "partition"}
          THEN /\ _set_connected(TRUE)
               /\ Goto("listen", "find")
               /\ UNCHANGED synced
          ELSE IF Matches(e) /\ e.action = "remove"
                  /\ e.device_type = "usb_device"
          THEN /\ Goto("listen", "up_probe")
               /\ synced' = FALSE
               /\ UNCHANGED marker
          ELSE UNCHANGED << pc, marker, synced >>
  /\ UNCHANGED << pureVars, serialVars >>
  /\ UNCHANGED << partition, mounted, layout, queue, err, verified >>

\* udev_listener.py:199-206: partition = find_ipod_partition(dev); an
\* exception inside find_ipod_partition is caught there and gives None.
Listen_Find ==
  /\ pc["listen"] = "find"
  /\ \E t \in PartTables, raises \in BOOLEAN :
       LET r == IF raises THEN None ELSE find_ipod_partition(t)
       IN /\ partition' = r
          /\ IF r = None
             THEN Goto("listen", "loop")
             ELSE Goto("listen", "mp_probe")
  /\ UNCHANGED << pureVars, serialVars >>
  /\ UNCHANGED << ev, mounted, layout, marker, queue, err, log, verified,
                  synced >>

\* Faulty variant of MP_Probe: the mountpoint check is ignored and mount always runs.
MP_Probe_NoCheck ==
  /\ pc["listen"] = "mp_probe"
  /\ Goto("listen", "mp_mount")
  /\ UNCHANGED << pureVars, serialVars >>
  /\ UNCHANGED << ev, partition, mounted, layout, marker, queue, err, log,
                  verified, synced >>

\* udev_listener.py:94-96: mount_partition's mountpoint probe; an exception
\* of subprocess.run here is outside mount_partition's try.
MP_Probe ==
  /\ pc["listen"] = "mp_probe"
  /\ \/ /\ Raise("listen", "mountpoint")
        /\ UNCHANGED synced
     \/ /\ mounted
        /\ Goto("listen", "mp_already")
        /\ UNCHANGED << err, synced >>
     \/ /\ ~mounted
        /\ Goto("listen", "mp_mount")
        /\ UNCHANGED << err, synced >>
  /\ UNCHANGED << pureVars, serialVars >>
  /\ UNCHANGED << ev, partition, mounted, layout, marker, queue, log,
                  verified >>

\* udev_listener.py:95-96: "already in use", return True without mounting
\* or verifying.
MP_Already ==
  /\ pc["listen"] = "mp_already"
  /\ ListenCallsSync
  /\ UNCHANGED << pureVars, serialVars >>
  /\ UNCHANGED << ev, partition, mounted, layout, marker, queue, err, log,
                  verified >>

\* udev_listener.py:98-118 and 127-135: the mount command.
MP_Mount ==
  /\ pc["listen"] = "mp_mount"
  /\ \E out \in RunOutcomes :
       IF out = "ok" /\ ~mounted
       THEN /\ DoMount
            /\ Goto("listen", "mp_verify")
       ELSE /\ ListenMountFailed
            /\ UNCHANGED << mounted, layout, verified >>
  /\ UNCHANGED << pureVars, serialVars >>
  /\ UNCHANGED << ev, partition, marker, queue, err, log, synced >>

\* Faulty variant of MP_Verify: a failed verification returns False without
\* calling unmount_partition.
MP_Verify_LeavesMounted ==
  /\ pc["listen"] = "mp_verify"
  /\ IF _verify_mount(layout)
     THEN /\ verified' = TRUE
          /\ ListenCallsSync
     ELSE /\ ListenMountFailed
          /\ UNCHANGED << verified, synced >>
  /\ UNCHANGED << pureVars, serialVars >>
  /\ UNCHANGED << ev, partition, mounted, layout, marker, queue, err, log >>

\* udev_listener.py:120-126: verification of the fresh mount.
MP_Verify ==
  /\ pc["listen"] = "mp_verify"
  /\ IF _verify_mount(layout)
     THEN /\ verified' = TRUE
          /\ ListenCallsSync
     ELSE /\ Goto("listen", "up_probe")
          /\ UNCHANGED << verified, synced >>
  /\ UNCHANGED << pureVars, serialVars >>
  /\ UNCHANGED << ev, partition, mounted, layout, marker, queue, err, log >>

\* unmount_partition returns: to line 222 on a detach, to mount_partition's
\* `return False` (line 126) after a failed verification.
UP_Return ==
  IF ev.action = "remove"
  THEN Goto("listen", "set_disc")
  ELSE ListenMountFailed

\* udev_listener.py:140 and 158-159: unmount_partition's mountpoint probe,
\* outside its try.  Called from mount_partition the exception is caught at
\* line 133; called from listen's remove branch nothing catches it.
UP_Probe ==
  /\ pc["listen"] = "up_probe"
  /\ \/ IF ev.action = "remove"
        THEN /\ Goto("listen", "crashed")
             /\ err' = "mountpoint"
        ELSE /\ ListenMountFailed
             /\ UNCHANGED err
     \/ /\ mounted
        /\ Goto("listen", "up_graceful")
        /\ UNCHANGED err
     \/ /\ ~mounted
        /\ UP_Return
        /\ UNCHANGED err
  /\ UNCHANGED << pureVars, serialVars >>
  /\ UNCHANGED << ev, partition, mounted, layout, marker, queue, log,
                  verified, synced >>

\* udev_listener.py:141-147 and 154-157: the graceful umount.
UP_Graceful ==
  /\ pc["listen"] = "up_graceful"
  /\ \E out \in RunOutcomes :
       IF out = "ok" /\ mounted
       THEN DoUnmount /\ UP_Return
       ELSE IF out \in {"ok", "fail"}
       THEN /\ Goto("listen", "up_forced")
            /\ UNCHANGED << mounted, layout, verified >>
       ELSE /\ UP_Return
            /\ UNCHANGED << mounted, layout, verified >>
  /\ UNCHANGED << pureVars, serialVars >>
  /\ UNCHANGED << ev, partition, marker, queue, err, log, synced >>

\* Faulty variant of UP_Forced: a failed forced umount leaves unmount_partition by an
\* exception that skips the rest of the detach handling.
UP_Forced_AbortsOnFailure ==
  /\ pc["listen"] = "up_forced"
  /\ \E out \in RunOutcomes :
       IF out = "ok" /\ mounted
       THEN DoUnmount /\ UP_Return
       ELSE /\ Goto("listen", "loop")
            /\ UNCHANGED << mounted, layout, verified >>
  /\ UNCHANGED << pureVars, serialVars >>
  /\ UNCHANGED << ev, partition, marker, queue, err, log, synced >>

\* udev_listener.py:148-157: the forced umount.
UP_Forced ==
  /\ pc["listen"] = "up_forced"
  /\ \E out \in RunOutcomes :
       /\ IF out = "ok" /\ mounted
          THEN DoUnmount
          ELSE UNCHANGED << mounted, layout, verified >>
       /\ UP_Return
  /\ UNCHANGED << pureVars, serialVars >>
  /\ UNCHANGED << ev, partition, marker, queue, err, log, synced >>

\* udev_listener.py:222
Listen_SetDisconnected ==
  /\ pc["listen"] = "set_disc"
  /\ _set_connected(FALSE)
  /\ Goto("listen", "loop")
  /\ UNCHANGED << pureVars, serialVars >>
  /\ UNCHANGED << ev, partition, mounted, layout, queue, err, log, verified,
                  synced >>

\* Faulty variant of Listen_Except: the exception is not caught and leaves listen.
Listen_Except_Propagates ==
  /\ pc["listen"] = "exc"
  /\ Goto("listen", "crashed")
  /\ UNCHANGED << pureVars, serialVars >>
  /\ UNCHANGED << ev, partition, mounted, layout, marker, queue, err, log,
                  verified, synced >>

\* udev_listener.py:216-217: except Exception around the attach handling.
Listen_Except ==
  /\ pc["listen"] = "exc"
  /\ log' = err
  /\ err' = "none"
  /\ Goto("listen", "loop")
  /\ UNCHANGED << pureVars, serialVars >>
  /\ UNCHANGED << ev, partition, mounted, layout, marker, queue, verified,
                  synced >>

\* ------------------------------------------ sync_queue (sync_from_queue.py)

\* sync_from_queue.py:71: listen passes MOUNT_POINT, the watcher a /dev/ path.
StartsWithDev(p) == p = "watch"

\* sync_queue returns to listen's loop or to the watcher's handler.
SyncReturn(p) == Goto(p, IF p = "listen" THEN "loop" ELSE "idle")

\* sync_from_queue.py:62-78
SQ_List(p) ==
  /\ pc[p] = "sq_list"
  /\ IF queue = {}
     THEN SyncReturn(p)
     ELSE Goto(p, IF StartsWithDev(p) THEN "mi_probe" ELSE "sq_import")
  /\ UNCHANGED << pureVars, serialVars >>
  /\ UNCHANGED << ev, partition, mounted, layout, marker, queue, err, log,
                  verified, synced >>

\* sync_from_queue.py:80-145: import of the queued files; every exception
\* is caught inside; imported files leave the queue.
SQ_Import(p) ==
  /\ pc[p] = "sq_import"
  /\ \E done \in SUBSET queue : queue' = queue \ done
  /\ Goto(p, "ej_probe")
  /\ UNCHANGED << pureVars, serialVars >>
  /\ UNCHANGED << ev, partition, mounted, layout, marker, err, log, verified,
                  synced >>

\* ------------------------------------------------- eject_ipod (utils.py)

\* eject_ipod returns into the API helper's finally, or ends sync_queue.
AfterEject(p) == IF p = "api" THEN Goto(p, "idle") ELSE SyncReturn(p)

\* utils.py:221-223 and 227-228
EJ_Probe(p) ==
  /\ pc[p] = "ej_probe"
  /\ Goto(p, IF mounted THEN "ej_umount" ELSE "ej_unlink")
  /\ UNCHANGED << pureVars, serialVars >>
  /\ UNCHANGED << ev, partition, mounted, layout, marker, queue, err, log,
                  verified, synced >>

\* utils.py:224 with _run (utils.py:80-87): non-zero exit raises.
EJ_Umount(p) ==
  /\ pc[p] = "ej_umount"
  /\ \E out \in UtilRunOutcomes :
       IF out = "ok" /\ mounted
       THEN /\ DoUnmount
            /\ Goto(p, "ej_eject")
            /\ UNCHANGED err
       ELSE /\ Raise(p, "umount")
            /\ UNCHANGED << mounted, layout, verified >>
  /\ UNCHANGED << pureVars, serialVars >>
  /\ UNCHANGED << ev, partition, marker, queue, log, synced >>

\* utils.py:225-226
EJ_Eject(p) ==
  /\ pc[p] = "ej_eject"
  /\ \E out \in UtilRunOutcomes :
       IF out = "ok"
       THEN /\ Goto(p, "ej_unlink")
            /\ UNCHANGED err
       ELSE Raise(p, "eject")
  /\ UNCHANGED << pureVars, serialVars >>
  /\ UNCHANGED << ev, partition, mounted, layout, marker, queue, log,
                  verified, synced >>

\* utils.py:229-232
EJ_Unlink(p) ==
  /\ pc[p] = "ej_unlink"
  /\ marker' = FALSE
  /\ AfterEject(p)
  /\ UNCHANGED << pureVars, serialVars >>
  /\ UNCHANGED << ev, partition, mounted, layout, queue, err, log, verified,
                  synced >>

\* ------------------------------------------------- mount_ipod (utils.py)

\* mount_ipod returns to sync_queue (line 74) or to the API helper's try.
AfterMount(p) == Goto(p, IF p = "watch" THEN "sq_import" ELSE "use")

\* utils.py:181-193
MI_Probe(p) ==
  /\ pc[p] = "mi_probe"
  /\ IF mounted
     THEN Goto(p, "mi_already") /\ UNCHANGED err
     ELSE \E exists \in BOOLEAN :
            IF exists THEN Goto(p, "mi_mount") /\ UNCHANGED err
            ELSE Raise(p, "RuntimeError")
  /\ UNCHANGED << pureVars, serialVars >>
  /\ UNCHANGED << ev, partition, mounted, layout, marker, queue, log,
                  verified, synced >>

\* utils.py:183-189: already mounted; the marker is written, no mount runs.
MI_Already(p) ==
  /\ pc[p] = "mi_already"
  /\ marker' = TRUE
  /\ AfterMount(p)
  /\ UNCHANGED << pureVars, serialVars >>
  /\ UNCHANGED << ev, partition, mounted, layout, queue, err, log, verified,
                  synced >>

\* Faulty variant of MI_Mount: after the password error the function goes on
\* to write the marker.
MI_Mount_MarksOnPassword(p) ==
  /\ pc[p] = "mi_mount"
  /\ \E out \in UtilRunOutcomes \cup {"password"} :
       IF out = "ok" /\ ~mounted
       THEN /\ DoMount
            /\ Goto(p, "mi_mark")
            /\ UNCHANGED err
       ELSE IF out = "password"
       THEN /\ Goto(p, "mi_mark")
            /\ UNCHANGED << mounted, layout, verified, err >>
       ELSE /\ Raise(p, "mount-ipod")
            /\ UNCHANGED << mounted, layout, verified >>
  /\ UNCHANGED << pureVars, serialVars >>
  /\ UNCHANGED << ev, partition, marker, queue, log, synced >>

\* utils.py:194-208
MI_Mount(p) ==
  /\ pc[p] = "mi_mount"
  /\ \E out \in UtilRunOutcomes \cup {"password"} :
       IF out = "ok" /\ ~mounted
       THEN /\ DoMount
            /\ Goto(p, "mi_mark")
            /\ UNCHANGED err
       ELSE IF out = "password"
       THEN /\ AfterMount(p)
            /\ UNCHANGED << mounted, layout, verified, err >>
       ELSE /\ Raise(p, "mount-ipod")
            /\ UNCHANGED << mounted, layout, verified >>
  /\ UNCHANGED << pureVars, serialVars >>
  /\ UNCHANGED << ev, partition, marker, queue, log, synced >>

\* utils.py:209-214
MI_Mark(p) ==
  /\ pc[p] = "mi_mark"
  /\ marker' = TRUE
  /\ AfterMount(p)
  /\ UNCHANGED << pureVars, serialVars >>
  /\ UNCHANGED << ev, partition, mounted, layout, queue, err, log, verified,
                  synced >>

\* ------------------------------------------------------ the other callers

\* watcher.py:37-46: a file event in the queue directory starts sync_queue.
Watch_Event ==
  /\ pc["watch"] = "idle"
  /\ Goto("watch", "sq_list")
  /\ UNCHANGED << pureVars, serialVars >>
  /\ UNCHANGED << ev, partition, mounted, layout, marker, queue, err, log,
                  verified, synced >>

\* watcher.py:47-48
Watch_Except ==
  /\ pc["watch"] = "exc"
  /\ Goto("watch", "idle")
  /\ UNCHANGED << pureVars, serialVars >>
  /\ UNCHANGED << ev, partition, mounted, layout, marker, queue, err, log,
                  verified, synced >>

\* api_helpers.py:74-76 (and 83-85, 92-94, 101-103): mount_ipod(device).
Api_Call ==
  /\ pc["api"] = "idle"
  /\ Goto("api", "mi_probe")
  /\ UNCHANGED << pureVars, serialVars >>
  /\ UNCHANGED << ev, partition, mounted, layout, marker, queue, err, log,
                  verified, synced >>

\* api_helpers.py:77-80: list_tracks() reads the mounted database, then the
\* finally clause calls eject_ipod().
Api_Use ==
  /\ pc["api"] = "use"
  /\ Goto("api", "ej_probe")
  /\ UNCHANGED << pureVars, serialVars >>
  /\ UNCHANGED << ev, partition, mounted, layout, marker, queue, err, log,
                  verified, synced >>

\* An exception of mount_ipod or eject_ipod leaves the API helper.
Api_Raise ==
  /\ pc["api"] = "exc"
  /\ Goto("api", "idle")
  /\ UNCHANGED << pureVars, serialVars >>
  /\ UNCHANGED << ev, partition, mounted, layout, marker, queue, err, log,
                  verified, synced >>

\* api_helpers.py:36-71
save_to_queue ==
  /\ \E f \in Files \ queue : queue' = queue \cup {f}
  /\ UNCHANGED << pureVars, serialVars >>
  /\ UNCHANGED << pc, ev, partition, mounted, layout, marker, err, log,
                  verified, synced >>

\* ------------------------------------------------- partition resolution

FsTypes == {"vfat", "fat32", "fat", "VFAT", "hfs"}

\* Sizes a child reports; 0 is also what a child without a size counts as.
Sizes == {0, 100, 500}

\* The i-th child of the device.
Child(i, f, z) ==
  [node |-> CASE i = 1 -> "/dev/sda1" [] i = 2 -> "/dev/sda2"
              [] i = 3 -> "/dev/sda3" [] OTHER -> "/dev/sda4",
   fstype |-> f, size |-> z]

\* One call of find_ipod_partition(device) or of detect_ipod_device().
Resolve ==
  /\ ~ret.done
  /\ arg.fn \in {"find_ipod_partition", "detect_ipod_device"}
  /\ ret' = [done |-> TRUE,
             value |-> IF arg.fn = "find_ipod_partition"
                       THEN (IF arg.fails THEN None
                             ELSE find_ipod_partition(arg.parts))
                       ELSE detect_ipod_device(arg.parts, arg.fails)]
  /\ UNCHANGED << arg, sq, lifecycleVars, serialVars >>

\* ------------------------- serial controllers (aap_controller.py, playback.py)

\* Threads that use one controller object at the same time.
Threads == {"t1", "t2"}

\* self._serial = None (aap_controller.py:21, playback.py:21): no handle.
\* Handles are numbered from 1 in the order they are constructed.
NoSerial == 0

\* The controller classes: AAPController and SerialPlayback.
Kinds == {"aap", "playback"}

\* Arguments tried for set_volume(level).
VolumeLevels == {150}

\* x & 0xFF
Byte(x) == x % 256

RECURSIVE sum(_)
sum(bs) == IF bs = << >> THEN 0 ELSE Head(bs) + sum(Tail(bs))

\* frame[2:]
From2(frame) == SubSeq(frame, 3, Len(frame))

\* Faulty variant of AAP_frame: the checksum leaves out the length byte.
AAP_frame_PayloadChecksum(payload) ==
  LET frame == << 255, 85, Len(payload) >> \o payload
      checksum == Byte(-sum(payload))
  IN Append(frame, checksum)

\* aap_controller.py:39-42: the frame AAPController._send builds.
AAP_frame(payload) ==
  LET frame == << 255, 85, Len(payload) >> \o payload
      checksum == Byte(-sum(From2(frame)))
  IN Append(frame, checksum)

\* Faulty variant of SP_frame: the length byte counts the whole frame.
SP_frame_FrameLength(command, param1, param2) ==
  LET frame == << 255, 85, 7, Byte(command), Byte(param1), Byte(param2) >>
      checksum == Byte(-sum(From2(frame)))
  IN Append(frame, checksum)

\* playback.py:31-33: the frame SerialPlayback._send builds.
SP_frame(command, param1, param2) ==
  LET frame == << 255, 85, 3, Byte(command), Byte(param1), Byte(param2) >>
      checksum == Byte(-sum(From2(frame)))
  IN Append(frame, checksum)

\* Faulty variant of clamp: min(100, int(level)) without the lower limit.
clamp_UpperOnly(level) == IF level < 100 THEN level ELSE 100

\* max(0, min(100, int(level)))
clamp(level) ==
  LET m == IF level < 100 THEN level ELSE 100
  IN IF m > 0 THEN m ELSE 0

\* The public methods of each class and the calls of the control endpoint.
AapCalls ==
  { [op |-> o, level |-> 0, via |-> "direct", phase |-> "send"] :
      o \in {"play_pause", "next_track", "previous_track",
             "get_current_track_info", "get_playback_status", "close"} }
  \cup { [op |-> "set_volume", level |-> l, via |-> "direct",
          phase |-> "send"] : l \in VolumeLevels }

PlaybackCalls ==
  { [op |-> o, level |-> 0, via |-> v, phase |-> "send"] :
      o \in {"play_pause", "next_track", "prev_track"},
      v \in {"direct", "http"} }
  \cup { [op |-> "close", level |-> 0, via |-> "direct", phase |-> "send"],
         [op |-> "invalid", level |-> 0, via |-> "http", phase |-> "send"] }

NoCall == [op |-> "none", level |-> 0, via |-> "direct", phase |-> "send"]

Queries == {"get_current_track_info", "get_playback_status"}

\* The payload each AAPController method passes to _send
\* (aap_controller.py:53-91).
AapPayload(c) ==
  CASE c.op = "play_pause" -> << 0 >>
    [] c.op = "next_track" -> << 1 >>
    [] c.op = "previous_track" -> << 2 >>
    [] c.op = "set_volume" -> << 4, clamp(c.level) >>
    [] c.op = "get_current_track_info" -> << 18 >>
    [] c.op = "get_playback_status" -> << 19 >>

\* The command each SerialPlayback method passes to _send (playback.py:37-47).
SpCommand(c) ==
  CASE c.op = "play_pause" -> 0
    [] c.op = "next_track" -> 1
    [] c.op = "prev_track" -> 2

FrameOf(k, c) ==
  IF k = "aap" THEN AAP_frame(AapPayload(c)) ELSE SP_frame(SpCommand(c), 0, 0)

NoLine == [for |-> "none", op |-> "none"]
NoResult == [status |-> "none", error |-> "none", line |-> NoLine]
Returned(line) == [status |-> "returned", error |-> "none", line |-> line]
Raised(what) == [status |-> "raised", error |-> what, line |-> NoLine]

\* A controller right after __init__ (aap_controller.py:18-21,
\* playback.py:18-21): no port is open, no thread is inside a call.
InitSerial ==
  /\ _serial = NoSerial
  /\ is_open = {}
  /\ opens = 0
  /\ tpc = [t \in Threads |-> "idle"]
  /\ call = [t \in Threads |-> NoCall]
  /\ ser = [t \in Threads |-> NoSerial]
  /\ wire = << >>
  /\ rx = << >>
  /\ result = [t \in Threads |-> NoResult]
  /\ response = [t \in Threads |-> None]

TGoto(t, l) == tpc' = [tpc EXCEPT ![t] = l]

\* The serial.Serial objects still referenced by the controller or by a
\* thread's local; an object nothing references is finalized and thereby
\* closed.
Referenced(s, locals) == ({s} \cup {locals[t] : t \in Threads}) \ {NoSerial}

\* Positions inside _send, up to and including ser.write.
SendPcs == {"open", "construct", "assign", "return", "write"}

Sending == {u \in Threads : tpc[u] \in SendPcs /\ call[u].phase = "send"}

\* Thread t starts one of the calls `calls`.
Call(t, calls) ==
  /\ tpc[t] = "idle"
  /\ \E c \in calls :
       /\ c.op \notin {"close", "invalid"}
            => Len(wire) + Cardinality(Sending) < MaxFrames
       /\ call' = [call EXCEPT ![t] = c]
       /\ IF c.op = "invalid"
          THEN /\ response' = [response EXCEPT ![t] = "400"]
               /\ UNCHANGED tpc
          ELSE /\ response' = [response EXCEPT ![t] = None]
               /\ TGoto(t, IF c.op = "close" THEN "close" ELSE "open")
  /\ UNCHANGED << lifecycleVars, pureVars >>
  /\ UNCHANGED << kind, _serial, is_open, opens, ser, wire, rx, result >>

\* A thread calls a public method of the controller, directly or through
\* the control endpoint (routers/control.py:20-30).
Thread_Call(t) == Call(t, IF kind = "aap" THEN AapCalls ELSE PlaybackCalls)

\* The first call of a thread is play_pause() (aap_controller.py:53-55,
\* playback.py:37-39) and it makes no other call.
First_PlayPause(t) ==
  /\ response[t] = None
  /\ Call(t, {c \in AapCalls \cup PlaybackCalls :
                c.op = "play_pause" /\ c.via = "direct"})

\* Faulty variant of S_Open: the port is opened on every call.
S_Open_AlwaysOpens(t) ==
  /\ tpc[t] = "open"
  /\ TGoto(t, "construct")
  /\ UNCHANGED << lifecycleVars, pureVars >>
  /\ UNCHANGED << kind, _serial, is_open, opens, call, ser, wire, rx, result,
                  response >>

\* _open, the test `self._serial is None or not self._serial.is_open`
\* (aap_controller.py:24, playback.py:24).
S_Open(t) ==
  /\ tpc[t] = "open"
  /\ TGoto(t, IF _serial = NoSerial \/ _serial \notin is_open
              THEN "construct" ELSE "return")
  /\ UNCHANGED << lifecycleVars, pureVars >>
  /\ UNCHANGED << kind, _serial, is_open, opens, call, ser, wire, rx, result,
                  response >>

\* Faulty variant of S_Construct: a failure to open the port is swallowed
\* and the call goes on as if nothing had happened.
S_Construct_Swallows(t) ==
  /\ tpc[t] = "construct"
  /\ \/ /\ TGoto(t, "ret")
        /\ result' = [result EXCEPT ![t] = Returned(NoLine)]
        /\ UNCHANGED << is_open, opens, ser >>
     \/ /\ opens < MaxOpens
        /\ opens' = opens + 1
        /\ is_open' = is_open \cup {opens + 1}
        /\ ser' = [ser EXCEPT ![t] = opens + 1]
        /\ TGoto(t, "assign")
        /\ UNCHANGED result
  /\ UNCHANGED << lifecycleVars, pureVars >>
  /\ UNCHANGED << kind, _serial, call, wire, rx, response >>

\* _open, serial.Serial(self.port, self.baudrate, timeout=1)
\* (aap_controller.py:26, playback.py:26): a new handle, or an exception
\* when the port cannot be opened.
S_Construct(t) ==
  /\ tpc[t] = "construct"
  /\ \/ /\ TGoto(t, "exc")
        /\ result' = [result EXCEPT ![t] = Raised("open")]
        /\ UNCHANGED << is_open, opens, ser >>
     \/ /\ opens < MaxOpens
        /\ opens' = opens + 1
        /\ is_open' = is_open \cup {opens + 1}
        /\ ser' = [ser EXCEPT ![t] = opens + 1]
        /\ TGoto(t, "assign")
        /\ UNCHANGED result
  /\ UNCHANGED << lifecycleVars, pureVars >>
  /\ UNCHANGED << kind, _serial, call, wire, rx, response >>

\* _open, the assignment `self._serial = ...` (line 26): the object the
\* attribute held before may lose its last reference.
S_Assign(t) ==
  /\ tpc[t] = "assign"
  /\ _serial' = ser[t]
  /\ is_open' = is_open \cap Referenced(ser[t], ser)
  /\ TGoto(t, "return")
  /\ UNCHANGED << lifecycleVars, pureVars >>
  /\ UNCHANGED << kind, opens, call, ser, wire, rx, result, response >>

\* _open, `return self._serial` (line 27) into `ser = self._open()`
\* (aap_controller.py:38 and 47, playback.py:30).
S_Return(t) ==
  /\ tpc[t] = "return"
  /\ ser' = [ser EXCEPT ![t] = _serial]
  /\ is_open' = is_open \cap Referenced(_serial, ser')
  /\ TGoto(t, IF call[t].phase = "send" THEN "write" ELSE "readline")
  /\ UNCHANGED << lifecycleVars, pureVars >>
  /\ UNCHANGED << kind, _serial, opens, call, wire, rx, result, response >>

\* _send, ser.write(frame) (aap_controller.py:44, playback.py:35): the whole
\* frame is handed to one write call.  The device answers a query frame with
\* one line.  Writing raises on an I/O error, on a handle another thread
\* closed and on None.
S_Write(t) ==
  /\ tpc[t] = "write"
  /\ \/ /\ ser[t] \in is_open
        /\ wire' = Append(wire, FrameOf(kind, call[t]))
        /\ ser' = [ser EXCEPT ![t] = NoSerial]
        /\ is_open' = is_open \cap Referenced(_serial, ser')
        /\ IF call[t].op \in Queries
           THEN /\ rx' = Append(rx, [for |-> t, op |-> call[t].op])
                /\ call' = [call EXCEPT ![t].phase = "read"]
                /\ TGoto(t, "open")
                /\ UNCHANGED result
           ELSE /\ result' = [result EXCEPT ![t] = Returned(NoLine)]
                /\ TGoto(t, "ret")
                /\ UNCHANGED << rx, call >>
     \/ /\ result' = [result EXCEPT ![t] = Raised("write")]
        /\ TGoto(t, "exc")
        /\ UNCHANGED << wire, ser, is_open, rx, call >>
  /\ UNCHANGED << lifecycleVars, pureVars >>
  /\ UNCHANGED << kind, _serial, opens, response >>

\* _readline, ser.readline() (aap_controller.py:48): the first waiting line,
\* or the empty string when the read times out.
S_Readline(t) ==
  /\ tpc[t] = "readline"
  /\ IF ser[t] \in is_open
     THEN /\ result' = [result EXCEPT ![t] =
                          Returned(IF rx = << >> THEN NoLine ELSE Head(rx))]
          /\ rx' = IF rx = << >> THEN rx ELSE Tail(rx)
          /\ TGoto(t, "ret")
     ELSE /\ result' = [result EXCEPT ![t] = Raised("read")]
          /\ TGoto(t, "exc")
          /\ UNCHANGED rx
  /\ ser' = [ser EXCEPT ![t] = NoSerial]
  /\ is_open' = is_open \cap Referenced(_serial, ser')
  /\ UNCHANGED << lifecycleVars, pureVars >>
  /\ UNCHANGED << kind, _serial, opens, call, wire, response >>

\* close, the test `self._serial and self._serial.is_open`
\* (aap_controller.py:30, playback.py:50).
Close_Check(t) ==
  /\ tpc[t] = "close"
  /\ IF _serial # NoSerial /\ _serial \in is_open
     THEN TGoto(t, "close_do") /\ UNCHANGED result
     ELSE /\ TGoto(t, "ret")
          /\ result' = [result EXCEPT ![t] = Returned(NoLine)]
  /\ UNCHANGED << lifecycleVars, pureVars >>
  /\ UNCHANGED << kind, _serial, is_open, opens, call, ser, wire, rx,
                  response >>

\* close, `self._serial.close()` (aap_controller.py:32, playback.py:52); the
\* attribute is read again and is None when another close() came first.
Close_Do(t) ==
  /\ tpc[t] = "close_do"
  /\ IF _serial = NoSerial
     THEN /\ result' = [result EXCEPT ![t] = Raised("close")]
          /\ TGoto(t, "exc")
          /\ UNCHANGED is_open
     ELSE /\ is_open' = is_open \ {_serial}
          /\ TGoto(t, "close_clear")
          /\ UNCHANGED result
  /\ UNCHANGED << lifecycleVars, pureVars >>
  /\ UNCHANGED << kind, _serial, opens, call, ser, wire, rx, response >>

\* close, `self._serial = NoSerial` (aap_controller.py:33, playback.py:53).
Close_Clear(t) ==
  /\ tpc[t] = "close_clear"
  /\ _serial' = NoSerial
  /\ is_open' = is_open \cap Referenced(NoSerial, ser)
  /\ result' = [result EXCEPT ![t] = Returned(NoLine)]
  /\ TGoto(t, "ret")
  /\ UNCHANGED << lifecycleVars, pureVars >>
  /\ UNCHANGED << kind, opens, call, ser, wire, rx, response >>

\* The method returns; the control endpoint answers with its success
\* response (routers/control.py:32-35).
Thread_Return(t) ==
  /\ tpc[t] = "ret"
  /\ response' = [response EXCEPT ![t] =
                    IF call[t].via = "http" THEN "200" ELSE "returned"]
  /\ call' = [call EXCEPT ![t] = NoCall]
  /\ result' = [result EXCEPT ![t] = NoResult]
  /\ TGoto(t, "idle")
  /\ UNCHANGED << lifecycleVars, pureVars >>
  /\ UNCHANGED << kind, _serial, is_open, opens, ser, wire, rx >>

\* The exception leaves the method: no handler in the controller; the
\* control endpoint turns it into HTTPException(500)
\* (routers/control.py:39-40).
Thread_Except(t) ==
  /\ tpc[t] = "exc"
  /\ response' = [response EXCEPT ![t] =
                    IF call[t].via = "http" THEN "500" ELSE "raised"]
  /\ call' = [call EXCEPT ![t] = NoCall]
  /\ result' = [result EXCEPT ![t] = NoResult]
  /\ ser' = [ser EXCEPT ![t] = NoSerial]
  /\ is_open' = is_open \cap Referenced(_serial, ser')
  /\ TGoto(t, "idle")
  /\ UNCHANGED << lifecycleVars, pureVars >>
  /\ UNCHANGED << kind, _serial, opens, wire, rx >>

NextSerial ==
  \E t \in Threads :
    \/ Thread_Call(t) \/ Thread_Return(t) \/ Thread_Except(t)
    \/ S_Open(t) \/ S_Construct(t) \/ S_Assign(t) \/ S_Return(t)
    \/ S_Write(t) \/ S_Readline(t)
    \/ Close_Check(t) \/ Close_Do(t) \/ Close_Clear(t)

\* ----------------- sync_queue file by file (sync_from_queue.py:65-146)
\* SQ_Import above is one step for the whole of lines 80-145; here the same
\* lines run one file at a time, on a queue that nobody else changes.

\* sorted(...): the files of a set in ascending order.
RECURSIVE sorted(_)
sorted(S) ==
  IF S = {} THEN << >>
  ELSE LET least == CHOOSE x \in S : \A y \in S : x <= y
       IN << least >> \o sorted(S \ {least})

\* What the loop body does for one file: it runs to its end, or
\* prepare_for_sync, add_track or stat raises.
FileOutcomes == {"ok", "convert_raises", "add_track_raises", "stat_raises"}

\* repo.save_changes() returns True or False, or raises.
SaveOutcomes == {"true", "false", "raises"}

\* sync_from_queue.py:65-68 and 80-83
Sync_List ==
  /\ sq.at = "list"
  /\ sq' = [sq EXCEPT !.at = IF arg.files = << >> THEN "done" ELSE "repo"]
  /\ UNCHANGED << arg, ret, lifecycleVars, serialVars >>

\* sync_from_queue.py:86 and 142-143: get_ipod_repo returns or raises.
Sync_GetRepo ==
  /\ sq.at = "repo"
  /\ \E ok \in BOOLEAN :
       sq' = IF ok THEN [sq EXCEPT !.at = "loop", !.i = 1]
             ELSE [sq EXCEPT !.at = "eject"]
  /\ UNCHANGED << arg, ret, lifecycleVars, serialVars >>

\* Faulty variant of Sync_File: the queued file is unlinked whether or not
\* the import raised.
Sync_File_AlwaysUnlinks ==
  /\ sq.at = "loop"
  /\ sq.i <= Len(arg.files)
  /\ \E out \in FileOutcomes :
       LET file == arg.files[sq.i]
       IN sq' = [sq EXCEPT
                  !.i = @ + 1,
                  !.added = IF out \in {"ok", "stat_raises"}
                            THEN @ \cup {file} ELSE @,
                  !.present = IF ~arg.keep_local_copy
                              THEN @ \ {file} ELSE @,
                  !.failed = IF out # "ok" THEN @ \cup {file} ELSE @,
                  !.success_count = IF out = "ok" THEN @ + 1 ELSE @,
                  !.error_count = IF out # "ok" THEN @ + 1 ELSE @]
  /\ UNCHANGED << arg, ret, lifecycleVars, serialVars >>

\* sync_from_queue.py:88-127: the loop body for the next file.
Sync_File ==
  /\ sq.at = "loop"
  /\ sq.i <= Len(arg.files)
  /\ \E out \in FileOutcomes :
       LET file == arg.files[sq.i]
       IN sq' = [sq EXCEPT
                  !.i = @ + 1,
                  !.added = IF out \in {"ok", "stat_raises"}
                            THEN @ \cup {file} ELSE @,
                  !.present = IF out = "ok" /\ ~arg.keep_local_copy
                              THEN @ \ {file} ELSE @,
                  !.failed = IF out # "ok" THEN @ \cup {file} ELSE @,
                  !.success_count = IF out = "ok" THEN @ + 1 ELSE @,
                  !.error_count = IF out # "ok" THEN @ + 1 ELSE @]
  /\ UNCHANGED << arg, ret, lifecycleVars, serialVars >>

\* sync_from_queue.py:130-140: after the last file, save_changes() if any
\* file was imported.
Sync_Save ==
  /\ sq.at = "loop"
  /\ sq.i > Len(arg.files)
  /\ IF sq.success_count > 0
     THEN \E s \in SaveOutcomes :
            sq' = [sq EXCEPT
                    !.at = "eject",
                    !.saved = s,
                    !.error_count =
                       IF s = "true" THEN @
                       ELSE @ + Len(arg.files) - sq.success_count]
     ELSE sq' = [sq EXCEPT !.at = "eject"]
  /\ UNCHANGED << arg, ret, lifecycleVars, serialVars >>

\* sync_from_queue.py:145-146: eject_ipod() ends the run.
Sync_Eject ==
  /\ sq.at = "eject"
  /\ sq' = [sq EXCEPT !.at = "done"]
  /\ UNCHANGED << arg, ret, lifecycleVars, serialVars >>

\* --------------------------------- response lines (aap_controller.py:46-91)

\* What the link's readline may hand back before the line end: a letter, two
\* decimal digits, the two separators (the tab is also white space), a byte
\* that is not valid UTF-8 ("BAD") and U+00B2 SUPERSCRIPT TWO ("sup2"), which
\* str.isdigit() accepts and int() rejects.
LineBytes == {"p", "4", "2", ",", "TAB", "BAD", "sup2"}

Whitespace == {"TAB"}

\* bytes.decode(errors="ignore"): undecodable bytes are dropped.
IsDecodable(b) == b # "BAD"
decode(bs) == SelectSeq(bs, IsDecodable)

RECURSIVE lstrip(_)
lstrip(s) ==
  IF s # << >> /\ Head(s) \in Whitespace THEN lstrip(Tail(s)) ELSE s

RECURSIVE rstrip(_)
rstrip(s) ==
  IF s # << >> /\ s[Len(s)] \in Whitespace
  THEN rstrip(SubSeq(s, 1, Len(s) - 1)) ELSE s

\* str.strip()
strip(s) == rstrip(lstrip(s))

\* str.split(sep): the fields between the separators; a string without a
\* separator, the empty string included, is one field.
RECURSIVE split(_, _)
split(s, sep) ==
  IF \E i \in 1..Len(s) : s[i] = sep
  THEN LET i == CHOOSE k \in 1..Len(s) :
                  /\ s[k] = sep
                  /\ \A j \in 1..(k - 1) : s[j] # sep
       IN << SubSeq(s, 1, i - 1) >> \o split(SubSeq(s, i + 1, Len(s)), sep)
  ELSE << s >>

\* str.isdigit(): not empty and every character has the Unicode digit
\* property.
isdigit(s) == s # << >> /\ \A i \in 1..Len(s) : s[i] \in {"4", "2", "sup2"}

\* int(s) raises ValueError unless every character is a decimal digit.
IntRaises(s) == \E i \in 1..Len(s) : s[i] \notin {"4", "2"}

RECURSIVE int(_)
int(s) ==
  IF s = << >> THEN 0
  ELSE 10 * int(SubSeq(s, 1, Len(s) - 1))
         + (IF s[Len(s)] = "4" THEN 4 ELSE 2)

\* aap_controller.py:46-50 without the port: the line read, decoded and
\* stripped.
_readline(bs) == strip(decode(bs))

\* The string "unknown".
Unknown == << "u", "n", "k", "n", "o", "w", "n" >>

ValueError ==
  [raised |-> TRUE, state |-> << >>, duration |-> 0, position |-> 0,
   title |-> << >>, artist |-> << >>, album |-> << >>]

\* aap_controller.py:73-79: what get_current_track_info() returns for the
\* bytes read.
get_current_track_info(bs) ==
  LET data == _readline(bs)
      parts == split(data, "TAB")
  IN [raised |-> FALSE, state |-> << >>, duration |-> 0, position |-> 0,
      title |-> IF Len(parts) > 0 THEN parts[1] ELSE << >>,
      artist |-> IF Len(parts) > 1 THEN parts[2] ELSE << >>,
      album |-> IF Len(parts) > 2 THEN parts[3] ELSE << >>]

\* aap_controller.py:84-91: what get_playback_status() returns for the bytes
\* read, or the ValueError that int() raises.
get_playback_status(bs) ==
  LET data == _readline(bs)
      parts == split(data, ",")
      numeric(i) == Len(parts) > i - 1 /\ isdigit(parts[i])
  IN IF \E i \in {2, 3} : numeric(i) /\ IntRaises(parts[i])
     THEN ValueError
     ELSE [raised |-> FALSE,
           state |-> IF parts # << >> THEN parts[1] ELSE Unknown,
           duration |-> IF numeric(2) THEN int(parts[2]) ELSE 0,
           position |-> IF numeric(3) THEN int(parts[3]) ELSE 0,
           title |-> << >>, artist |-> << >>, album |-> << >>]

\* One query answered from the bytes in arg.line.
Decode ==
  /\ ~ret.done
  /\ arg.fn \in Queries
  /\ ret' = [done |-> TRUE,
             value |-> IF arg.fn = "get_current_track_info"
                       THEN get_current_track_info(arg.line)
                       ELSE get_playback_status(arg.line)]
  /\ UNCHANGED << arg, sq, lifecycleVars, serialVars >>

\* aap_controller.py:65-68: the frame set_volume(level) sends.
SetVolume ==
  /\ ~ret.done
  /\ arg.fn = "set_volume"
  /\ ret' = [done |-> TRUE,
             value |-> AAP_frame(AapPayload([op |-> "set_volume",
                                            level |-> arg.level]))]
  /\ UNCHANGED << arg, sq, lifecycleVars, serialVars >>

\* ------------------------------------------------------- specifications

ListenSteps ==
  \/ Listen_Find
  \/ MP_Probe \/ MP_Already \/ MP_Mount \/ MP_Verify
  \/ UP_Probe \/ UP_Graceful \/ UP_Forced
  \/ Listen_SetDisconnected \/ Listen_Except
  \/ SQ_List("listen") \/ SQ_Import("listen")
  \/ EJ_Probe("listen") \/ EJ_Umount("listen") \/ EJ_Eject("listen")
  \/ EJ_Unlink("listen")
  \/ save_to_queue

NextListen == Listen_Event(HotplugEvent) \/ ListenSteps

NextOthers ==
  \/ Watch_Event \/ Watch_Except
  \/ Api_Call \/ Api_Use \/ Api_Raise
  \/ \E p \in {"watch"} : SQ_List(p) \/ SQ_Import(p)
  \/ \E p \in {"watch", "api"} :
        \/ MI_Probe(p) \/ MI_Already(p) \/ MI_Mount(p) \/ MI_Mark(p)
        \/ EJ_Probe(p) \/ EJ_Umount(p) \/ EJ_Eject(p) \/ EJ_Unlink(p)

\* Events of the configured device only: an event of another device changes
\* nothing but listen's loop variables, and listen never reads the event's
\* filesystem type.
DeviceEvents == { e \in HotplugEvent : Matches(e) /\ e.fs_type = "vfat" }

Next == Listen_Event(DeviceEvents) \/ ListenSteps \/ NextOthers

\* The application before the first event: the control endpoint owns a
\* SerialPlayback object (routers/control.py:12).
Init == InitLifecycle /\ InitPure /\ kind = "playback" /\ InitSerial

\* A call of find_ipod_partition(device) or detect_ipod_device() on some
\* list of up to MaxParts children; `fails` says that reading the list raises.
InitResolve ==
  /\ InitLifecycle
  /\ kind = "playback"
  /\ InitSerial
  /\ \E n \in 0..MaxParts :
       \E f \in [1..n -> FsTypes], z \in [1..n -> Sizes] :
         \E fn \in {"find_ipod_partition", "detect_ipod_device"},
            fails \in BOOLEAN :
           arg = [fn |-> fn, fails |-> fails,
                  parts |-> [i \in 1..n |-> Child(i, f[i], z[i])]]
  /\ ret = NoRet
  /\ sq = NoSync

SpecResolve == InitResolve /\ [][Resolve]_vars

\* Byte values tried in a payload, and integers tried as command and
\* parameters of SerialPlayback._send.
ByteSamples == {0, 1, 2, 4, 18, 19, 100, 128, 255}
IntSamples == {-1, 0, 1, 2, 255, 256, 300}

Payloads == UNION { [1..n -> ByteSamples] : n \in 0..MaxPayload }

\* Integers tried as the level of set_volume.
LevelSamples == {-300, -5, -1, 0, 1, 50, 99, 100, 101, 150, 255, 256, 300}

\* A call of AAPController._send(payload), of
\* SerialPlayback._send(command, param1, param2) or of set_volume(level).
InitFrame ==
  /\ InitLifecycle
  /\ kind = "playback"
  /\ InitSerial
  /\ \/ arg \in [fn : {"AAPController._send"}, payload : Payloads]
     \/ arg \in [fn : {"SerialPlayback._send"},
                 payload : [1..3 -> IntSamples]]
     \/ arg \in [fn : {"set_volume"}, level : LevelSamples]
  /\ ret = NoRet
  /\ sq = NoSync

\* The frame _send hands to ser.write.
Encode ==
  /\ ~ret.done
  /\ arg.fn \in {"AAPController._send", "SerialPlayback._send"}
  /\ ret' = [done |-> TRUE,
             value |-> IF arg.fn = "AAPController._send"
                       THEN AAP_frame(arg.payload)
                       ELSE SP_frame(arg.payload[1], arg.payload[2],
                                     arg.payload[3])]
  /\ UNCHANGED << arg, sq, lifecycleVars, serialVars >>

SpecFrame == InitFrame /\ [][Encode \/ SetVolume]_vars

\* A query method of AAPController reading some line of up to MaxLine bytes.
InitQuery ==
  /\ InitLifecycle
  /\ kind = "aap"
  /\ InitSerial
  /\ \E n \in 0..MaxLine :
       \E l \in [1..n -> LineBytes], fn \in Queries :
         arg = [fn |-> fn, line |-> l]
  /\ ret = NoRet
  /\ sq = NoSync

SpecQuery == InitQuery /\ [][Decode]_vars

\* sync_queue(MOUNT_POINT) on a queue holding some of the files, with
\* keep_local_copy set or not.
InitSync ==
  /\ InitLifecycle
  /\ kind = "playback"
  /\ InitSerial
  /\ \E S \in SUBSET Files, keep \in BOOLEAN :
       /\ arg = [fn |-> "sync_queue", files |-> sorted(S),
                 keep_local_copy |-> keep]
       /\ sq = [NoSync EXCEPT !.at = "list", !.present = S]
  /\ ret = NoRet

NextSync ==
  Sync_List \/ Sync_GetRepo \/ Sync_File \/ Sync_Save \/ Sync_Eject

SpecSync == InitSync /\ [][NextSync]_vars

\* One controller object of either class, used by the threads.
InitController == InitLifecycle /\ InitPure /\ kind \in Kinds /\ InitSerial

SpecSerial == InitController /\ [][NextSerial]_vars

\* Two threads that call play_pause() once each on a new controller.
NextTwoCalls ==
  \E t \in Threads :
    \/ First_PlayPause(t) \/ Thread_Return(t) \/ Thread_Except(t)
    \/ S_Open(t) \/ S_Construct(t) \/ S_Assign(t) \/ S_Return(t)
    \/ S_Write(t)

SpecTwoCalls == InitController /\ [][NextTwoCalls]_vars

\* The hotplug monitor alone with the upload endpoint filling the queue.
SpecListen == Init /\ [][NextListen]_vars

\* All callers of the mount point together.
Spec == Init /\ [][Next]_vars

\* ------------------------------------------------------------- properties

\* Program positions inside eject_ipod, inside sync_queue, and those at which
\* a caller reads or writes the mounted filesystem.
EjectPcs == {"ej_probe", "ej_umount", "ej_eject", "ej_unlink"}
SyncPcs == {"sq_list", "sq_import", "mi_probe", "mi_already", "mi_mount",
            "mi_mark"} \cup EjectPcs
UsePcs == {"use", "sq_import"}

IsDetach(e) == Matches(e) /\ e.action = "remove" /\ e.device_type = "usb_device"

\* listen's step that calls sync_queue (udev_listener.py:212).
SyncCalled == pc["listen"] # "sq_list" /\ pc'["listen"] = "sq_list"

\* C1: in listen the connection marker is written only after the partition
\* was mounted and _verify_mount succeeded: every step that creates the
\* marker leaves a verified mount behind.
C1_MarkerOnlyAfterVerify == [][(~marker /\ marker') => verified']_vars

\* C2: once listen has processed a detach of the matching device and is back
\* at its loop, the marker is absent, whatever the umount commands did.
C2_DetachRemovesMarker ==
  (pc["listen"] = "loop" /\ IsDetach(ev)) => ~marker

\* C2 witness: a detach was processed, the filesystem is still mounted (the
\* graceful and forced umount failed, timed out or raised) and the marker is
\* gone.
C2_Witness == pc["listen"] = "loop" /\ IsDetach(ev) /\ mounted /\ ~marker

\* C3: whenever eject_ipod finishes, normally or by raising, the marker file
\* does not exist.
C3_EjectRemovesMarker ==
  [][\A p \in Procs :
       (pc[p] \in EjectPcs /\ pc'[p] \notin EjectPcs) => ~marker']_vars

\* C4: listen calls sync_queue at most once between two detaches, however
\* many add events one attach delivers.
C4_SyncOncePerAttach == [][SyncCalled => ~synced]_vars

\* C5: listen calls sync_queue only for a mount that passed _verify_mount,
\* i.e. with iPod_Control, iTunes and Music present.
C5_SyncOnlyVerified ==
  [][SyncCalled => (verified' /\ _verify_mount(layout'))]_vars

\* C6: when the sync_queue call of listen is over (returned or raised) the
\* filesystem is still mounted.
C6_MountKeptAfterSync ==
  [][(pc["listen"] \in SyncPcs /\ pc'["listen"] \notin SyncPcs)
       => mounted']_vars

\* C7: an exception raised by sync_queue (its eject_ipod commands) inside
\* listen is caught and logged, listen is back at its loop for the next
\* event, and no such exception ever terminates listen.
C7_SyncExceptionCaught ==
  [][/\ (pc["listen"] = "exc" /\ err \in {"umount", "eject"}
           /\ pc'["listen"] # "exc")
          => (pc'["listen"] = "loop" /\ log' = err)
     /\ pc'["listen"] = "crashed" => err' \notin {"umount", "eject"}]_vars

\* C7 witness: listen logged an exception of sync_queue and waits for the
\* next event.
C7_Witness == pc["listen"] = "loop" /\ log \in {"umount", "eject"}

\* C8: listen never raises, whatever fails during resolution, mount,
\* verification or unmount.
C8_ListenNeverRaises == pc["listen"] # "crashed"

\* C9: mount-state transitions are serialized across callers; in particular
\* no caller's eject_ipod unmounts the filesystem while another caller is
\* reading from or writing to it.
C9_NoUnmountWhileInUse ==
  [][\A p \in Procs :
       (pc[p] = "ej_umount" /\ pc'[p] # pc[p] /\ mounted /\ ~mounted')
         => \A q \in Procs \ {p} : pc[q] \notin UsePcs]_vars

\* C10: on a mounted mount point mount_partition and mount_ipod take their
\* already-mounted branch, run no mount command, leave the mount as it is and
\* return success (listen goes on to sync_queue, mount_ipod returns to its
\* caller).
C10_MountIdempotent ==
  [][\A p \in Procs :
       /\ (pc[p] = "mp_probe" /\ mounted /\ pc'[p] # pc[p])
            => pc'[p] \in {"mp_already", "exc"}
       /\ (pc[p] = "mi_probe" /\ mounted /\ pc'[p] # pc[p])
            => pc'[p] = "mi_already"
       /\ (pc[p] = "mp_already" /\ pc'[p] # pc[p])
            => (pc'[p] = "sq_list" /\ mounted' = mounted)
       /\ (pc[p] = "mi_already" /\ pc'[p] # pc[p])
            => (pc'[p] \in {"sq_import", "use"} /\ mounted' = mounted)]_vars

\* C10 witness: a second mount_partition call of the same attach and a
\* mount_ipod call are both in their already-mounted branch.
C10_Witness ==
  /\ pc["listen"] = "mp_already" /\ synced
  /\ pc["api"] = "mi_already"

\* C11: unmount_partition runs no umount command on an unmounted point; on a
\* mounted one the graceful umount comes first; whenever the graceful umount
\* leaves the filesystem mounted (non-zero exit or timeout) the forced umount
\* runs next; after the forced umount no further umount command runs.
C11_UnmountEscalation ==
  [][/\ (pc["listen"] = "up_probe" /\ ~mounted)
          => pc'["listen"] \notin {"up_graceful", "up_forced"}
     /\ (pc'["listen"] = "up_forced" /\ pc["listen"] # "up_forced")
          => pc["listen"] = "up_graceful"
     /\ (pc["listen"] = "up_graceful" /\ pc'["listen"] # "up_graceful"
           /\ mounted')
          => pc'["listen"] = "up_forced"
     /\ (pc["listen"] = "up_forced" /\ pc'["listen"] # "up_forced")
          => pc'["listen"] \notin {"up_graceful", "up_forced"}]_vars

FatNames == {"vfat", "fat32", "fat"}

\* The children the function takes for FAT: ID_FS_TYPE vfat or fat32 in
\* find_ipod_partition, fstype vfat or fat in any case in detect_ipod_device.
Candidates(a) ==
  { i \in 1..Len(a.parts) :
      IF a.fn = "find_ipod_partition"
      THEN a.parts[i].fstype \in {"vfat", "fat32"}
      ELSE lower(a.parts[i].fstype) \in {"vfat", "fat"} }

NotFound(a) == IF a.fn = "find_ipod_partition" THEN None ELSE IPOD_DEVICE

\* C13: the resolver always returns a value.  Without a FAT child, or when
\* the children cannot be read, it is the not-found value.  Otherwise it is
\* the node of a FAT child that no FAT child exceeds in size and that every
\* earlier FAT child is strictly smaller than; a child whose type is not a
\* FAT type is never returned.
C13_LargestFatPartition ==
  (ret.done /\ arg.fn \in {"find_ipod_partition", "detect_ipod_device"})
    => LET fat == Candidates(arg)
       IN IF fat = {} \/ arg.fails
          THEN ret.value = NotFound(arg)
          ELSE \E k \in fat :
                 /\ ret.value = arg.parts[k].node
                 /\ lower(arg.parts[k].fstype) \in FatNames
                 /\ \A j \in fat : arg.parts[j].size <= arg.parts[k].size
                 /\ \A j \in fat : j < k
                                    => arg.parts[j].size < arg.parts[k].size

\* C13 witness: three FAT children, the last two of the same largest size
\* and a larger child of another type in front: the second one is returned.
C13_Witness ==
  /\ ret.done /\ arg.fn = "detect_ipod_device" /\ ~arg.fails
  /\ Len(arg.parts) = 3
  /\ arg.parts[1].fstype = "vfat" /\ arg.parts[1].size = 100
  /\ arg.parts[2].fstype = "VFAT" /\ arg.parts[2].size = 500
  /\ arg.parts[3].fstype = "fat" /\ arg.parts[3].size = 500
  /\ ret.value = "/dev/sda2"

\* A frame was built by one of the two _send methods.
Framed ==
  ret.done /\ arg.fn \in {"AAPController._send", "SerialPlayback._send"}

\* The payload bytes of the call: the bytes given to AAPController._send,
\* command and parameters reduced to a byte each in SerialPlayback._send.
PayloadBytes ==
  IF arg.fn = "AAPController._send" THEN arg.payload
  ELSE [i \in 1..3 |-> arg.payload[i] % 256]

\* checksum(payload) = (-sum(payload)) & 0xFF
checksum(bs) == (-sum(bs)) % 256

\* C14 as stated: the frame starts with 0xFF 0x55, its third byte is the
\* number of payload bytes and its last byte is the checksum of the payload
\* bytes only.
C14_ChecksumOverPayload ==
  Framed =>
    LET frame == ret.value
    IN /\ frame[1] = 255 /\ frame[2] = 85
       /\ frame[3] = Len(PayloadBytes)
       /\ frame[Len(frame)] = checksum(PayloadBytes)

\* C14 amended: the frame is 0xFF 0x55, the number of payload bytes, the
\* payload bytes and one last byte, which is the checksum of the length byte
\* followed by the payload bytes.
C14_ChecksumOverLengthAndPayload ==
  Framed =>
    LET frame == ret.value
    IN /\ Len(frame) = Len(PayloadBytes) + 4
       /\ frame[1] = 255 /\ frame[2] = 85
       /\ frame[3] = Len(PayloadBytes)
       /\ SubSeq(frame, 4, Len(frame) - 1) = PayloadBytes
       /\ frame[Len(frame)] = checksum(<< Len(PayloadBytes) >> \o PayloadBytes)

\* C14 witness: SerialPlayback._send(0x01, 300, -1) gave
\* FF 55 03 01 2C FF D1.
C14_Witness ==
  /\ Framed /\ arg.fn = "SerialPlayback._send"
  /\ arg.payload = << 1, 300, -1 >>
  /\ ret.value = << 255, 85, 3, 1, 44, 255, 209 >>

\* C15: the length byte, the payload bytes and the checksum byte of the frame
\* add up to 0 modulo 256, and every byte of the frame is in 0..255.
C15_FrameSumsToZero ==
  Framed =>
    LET frame == ret.value
    IN /\ sum(SubSeq(frame, 3, Len(frame))) % 256 = 0
       /\ \A i \in 1..Len(frame) : frame[i] \in 0..255

\* C15 witness: AAPController._send(b"\x04\x64") gave FF 55 02 04 64 96.
C15_Witness ==
  /\ Framed /\ arg.fn = "AAPController._send"
  /\ arg.payload = << 4, 100 >>
  /\ ret.value = << 255, 85, 2, 4, 100, 150 >>

\* C16: two play_pause() calls that run at the same time on a new controller
\* open the port once only, write nothing but complete play_pause frames, one
\* frame per write, and when both have returned exactly two frames are on
\* the link.
C16_TwoFramesOneOpen ==
  /\ opens <= 1
  /\ \A i \in 1..Len(wire) :
       wire[i] = FrameOf(kind, [op |-> "play_pause", level |-> 0])
  /\ (\A t \in Threads : response[t] = "returned") => Len(wire) = 2

\* Thread t has written its query frame and has not read its response line
\* yet.
InPair(t) == call[t].op \in Queries /\ call[t].phase = "read"

\* C17: between a caller's query frame and its read of the response line no
\* other caller writes a frame or reads a line, and the line a caller reads
\* answers its own query (or is empty after a timeout).
C17_SendReceiveAtomic ==
  [][\A t \in Threads :
       /\ InPair(t) =>
            /\ wire' = wire
            /\ rx' # rx => (tpc[t] = "readline" /\ tpc'[t] # "readline")
       /\ (tpc[t] = "readline" /\ tpc'[t] = "ret")
            => result'[t].line.for \in {t, "none"}]_vars

\* C18: at most one serial handle is open at any time.
C18_OneOpenHandle == Cardinality(is_open) <= 1

\* The controller's link is open.
LinkOpen == _serial # NoSerial /\ _serial \in is_open

\* C19: no port is open before the first command; _open constructs a handle
\* exactly when the link is not open and otherwise hands out the existing
\* one; an open link stays open under every step that is not close()'s;
\* close() on a link that is not open changes nothing and returns.
C19_LazyOpenExplicitClose ==
  [][/\ opens = 0 => (is_open = {} /\ _serial = NoSerial)
     /\ \A t \in Threads :
          /\ (tpc[t] = "open" /\ tpc'[t] # "open")
               => /\ tpc'[t] = (IF LinkOpen THEN "return" ELSE "construct")
                  /\ opens' = opens /\ is_open' = is_open
          /\ (tpc[t] = "return" /\ tpc'[t] # "return") => ser'[t] = _serial
          /\ (tpc[t] = "close" /\ ~LinkOpen /\ tpc'[t] # "close")
               => /\ tpc'[t] = "ret" /\ result'[t].status = "returned"
                  /\ _serial' = _serial /\ is_open' = is_open
     /\ opens' # opens
          => \E t \in Threads : tpc[t] = "construct" /\ tpc'[t] = "assign"
     /\ (LinkOpen /\ ~LinkOpen')
          => \E t \in Threads : /\ tpc[t] \in {"close_do", "close_clear"}
                                /\ tpc'[t] # tpc[t]]_vars

\* C19 witness: one thread alone sent a command, closed the controller and
\* sent a second command, which opened the port again.
C19_Witness ==
  /\ tpc["t2"] = "idle" /\ response["t2"] = None
  /\ tpc["t1"] = "idle" /\ response["t1"] = "returned"
  /\ opens = 2 /\ _serial = 2 /\ is_open = {2} /\ Len(wire) = 2

\* C20: a command whose port open or frame write raises ends by raising that
\* error: nothing is opened or written after the failure, the call reports
\* no success, and the control endpoint answers 500.  A success is reported
\* only by a call that returned.
C20_ErrorsPropagate ==
  [][\A t \in Threads :
       /\ (tpc[t] = "construct" /\ tpc'[t] # "construct")
            => \/ tpc'[t] = "assign" /\ opens' = opens + 1
               \/ /\ tpc'[t] = "exc" /\ result'[t] = Raised("open")
                  /\ opens' = opens /\ wire' = wire
       /\ (tpc[t] = "write" /\ tpc'[t] # "write")
            => \/ /\ tpc'[t] \in {"ret", "open"}
                  /\ wire' = Append(wire, FrameOf(kind, call[t]))
               \/ /\ tpc'[t] = "exc" /\ result'[t] = Raised("write")
                  /\ opens' = opens /\ wire' = wire
       /\ (tpc[t] = "exc" /\ tpc'[t] # "exc")
            => /\ tpc'[t] = "idle"
               /\ result[t].status = "raised"
               /\ response'[t] = (IF call[t].via = "http" THEN "500"
                                  ELSE "raised")
               /\ opens' = opens /\ wire' = wire
       /\ (response'[t] \in {"200", "returned"} /\ response'[t] # response[t])
            => tpc[t] = "ret" /\ result[t].status = "returned"]_vars

\* C20 witness: the endpoint answered 500 to a command whose port could not
\* be opened; nothing was written.
C20_Witness ==
  /\ kind = "playback" /\ response["t1"] = "500" /\ tpc["t1"] = "idle"
  /\ opens = 0 /\ wire = << >>

\* The line get_playback_status() decodes, its comma-separated fields, and the
\* value of the i-th field read as a decimal number: 0 when the field is
\* missing or has a character other than 0..9.
StatusLine == _readline(arg.line)
StatusFields == split(StatusLine, ",")
IsDecimal(s) == s # << >> /\ \A i \in 1..Len(s) : s[i] \in {"4", "2"}
NumberAt(i) ==
  IF Len(StatusFields) >= i /\ IsDecimal(StatusFields[i])
  THEN int(StatusFields[i]) ELSE 0

\* C21: get_playback_status() returns the first comma-separated field as the
\* state, "unknown" when the line is empty; duration and position are the
\* second and third fields as integers when they are decimal numbers, 0 when
\* they are non-numeric or missing.
C21_StatusDecoding ==
  (ret.done /\ arg.fn = "get_playback_status")
    => /\ ~ret.value.raised
       /\ ret.value.state = (IF StatusLine = << >> THEN Unknown
                             ELSE StatusFields[1])
       /\ ret.value.duration = NumberAt(2)
       /\ ret.value.position = NumberAt(3)

\* C22: whatever bytes readline returned, get_current_track_info() and
\* get_playback_status() return a result and do not raise; title, artist and
\* album are the tab-separated fields, the empty string when missing.
C22_NeverRaiseOnContent ==
  (ret.done /\ arg.fn \in Queries)
    => /\ ~ret.value.raised
       /\ arg.fn = "get_current_track_info"
            => LET fields == split(_readline(arg.line), "TAB")
                   At(i) == IF Len(fields) >= i THEN fields[i] ELSE << >>
               IN /\ ret.value.title = At(1)
                  /\ ret.value.artist = At(2)
                  /\ ret.value.album = At(3)

\* C23: for every integer level set_volume(level) sends one frame whose
\* payload is the opcode 0x04 and one parameter byte, min(100, max(0, level)):
\* 100 for levels above 100, 0 for negative levels, never outside 0..100.
C23_VolumeClamped ==
  (ret.done /\ arg.fn = "set_volume")
    => LET frame == ret.value
           level == arg.level
           expected == IF level > 100 THEN 100
                       ELSE IF level < 0 THEN 0 ELSE level
       IN /\ Len(frame) = 6
          /\ frame[1] = 255 /\ frame[2] = 85 /\ frame[3] = 2
          /\ frame[4] = 4
          /\ frame[5] = expected
          /\ frame[5] \in 0..100

\* C23 witness: set_volume(150) sent FF 55 02 04 64 96.
C23_Witness ==
  /\ ret.done /\ arg.fn = "set_volume" /\ arg.level = 150
  /\ ret.value = << 255, 85, 2, 4, 100, 150 >>

\* C24: an event whose vendor id or product id is not the configured one
\* changes nothing but listen's loop variables: the marker, the partition,
\* the mount, the queue, the sync record and every program position stay as
\* they were, whatever the event's action and device type.
C24_ForeignEventIgnored ==
  [][(pc["listen"] = "loop" /\ ev' # ev
       /\ (ev'.vendor_id # vendor \/ ev'.model_id # product))
      => UNCHANGED << pc, marker, partition, mounted, layout, queue, err,
                      verified, synced >>]_vars

\* C24 witness: a remove event of another product of the same vendor has
\* been read while the iPod is mounted and marked connected.
C24_Witness ==
  /\ pc["listen"] = "loop"
  /\ ev = [action |-> "remove", vendor_id |-> "05ac", model_id |-> "1261",
           device_type |-> "usb_device", fs_type |-> "vfat"]
  /\ marker /\ mounted

\* C26: on a detach the marker is removed before the first umount command
\* is issued: when the detach handling runs the graceful or the forced
\* umount, the marker does not report the device as connected, neither
\* before the command nor after it, whatever its outcome.
C26_MarkerRemovedBeforeUmount ==
  [][(ev.action = "remove" /\ pc["listen"] \in {"up_graceful", "up_forced"}
       /\ pc'["listen"] # pc["listen"])
      => ~marker /\ ~marker']_vars

\* C27: the resolution of the partition (and with it mount, verification
\* and sync) starts only for an add event of the configured device whose
\* device type is partition and whose filesystem type is FAT.
C27_PipelineOnlyForFatPartition ==
  [][(pc["listen"] = "loop" /\ pc'["listen"] # "loop")
      => \/ /\ ev'.action = "add" /\ Matches(ev')
            /\ ev'.device_type = "partition"
            /\ ev'.fs_type = "vfat"
         \/ ev'.action = "remove"]_vars

\* C28: when the first look after an attach finds no FAT partition, the
\* attach handling looks again instead of returning to the event loop.
\* (listen is at "find" only for the first look of an attach.)
C28_LooksAgain ==
  [][(pc["listen"] = "find" /\ partition' = None)
      => pc'["listen"] = "find"]_vars

\* Program positions inside unmount_partition.
UnmountPcs == {"up_probe", "up_graceful", "up_forced"}

\* C29: when verification of a fresh mount fails, mount_partition calls
\* unmount_partition before it returns; that unmount runs the graceful umount
\* on the mounted filesystem, which is unmounted when the graceful or the
\* forced umount succeeds and is not mounted again; mount_partition then
\* returns to the event loop and no sync is started.
C29_FailedVerifyUnmounts ==
  [][/\ (pc["listen"] = "mp_verify" /\ pc'["listen"] # "mp_verify"
          /\ ~_verify_mount(layout))
         => /\ pc'["listen"] = "up_probe"
            /\ mounted' /\ synced' = synced
     /\ (ev.action = "add" /\ pc["listen"] \in UnmountPcs
          /\ pc'["listen"] # pc["listen"])
         => /\ pc'["listen"] \in UnmountPcs \cup {"loop"}
            /\ synced' = synced
            /\ mounted' => mounted]_vars

\* C29 witness: verification of the fresh mount has failed and
\* unmount_partition is about to run the graceful umount on it.
C29_Witness ==
  /\ pc["listen"] = "up_graceful" /\ ev.action = "add"
  /\ mounted /\ ~_verify_mount(layout) /\ ~synced

\* The file the loop body of sync_queue is at.
CurrentFile == arg.files[sq.i]

C30_NoFileLost ==
  (arg.fn = "sync_queue" /\ sq.at \in {"eject", "done"}
     /\ sq.saved # "true")
    => \A i \in 1..Len(arg.files) : arg.files[i] \in sq.present

====
